---- MODULE Spec2Model ----
(***************************************************************************)
(* VendoTrash: the label classifier of Server/services/vision_service.py.  *)
(*                                                                         *)
(* A label is a record [description, score].  Descriptions are strings as  *)
(* the Vision API returns them (capitalised); scores are confidences in    *)
(* units of 1/10000, so 0.9 is 9000 and 0.85 * 0.65 = 0.5525 is 5525.      *)
(* The verdict's confidence is in the same unit.                           *)
(***************************************************************************)
EXTENDS Integers, Sequences, FiniteSets, TLC

VARIABLES
    labels,          \* the label annotations handed to _process_labels
    context,         \* the set-wide context clues
    outcomes,        \* per label, the outcome the loop logs
    accepted_items,
    rejected_items,
    unknown_items,
    result           \* the verdict returned, None before the call

vars == <<labels, context, outcomes, accepted_items, rejected_items,
          unknown_items, result>>

VARIABLES
    redis_up,        \* get_redis_client() returns a client
    sessions,        \* Redis keys session:{user_id}, with the seconds left
    history,         \* Redis keys detection_history:{user_id}
    customer_tokens, \* _customer_tokens, in dict insertion order
    transactions,    \* the rows of the transactions table
    users,           \* the counters of the users table
    machines,        \* total_collected of the machines table
    response,        \* the last HTTP response the server sent
    requested,       \* per user, seconds since /prepare-insert was last
                     \* answered, -1 before that and after /end-session
    granted,         \* per user, seconds since /prepare-insert last answered
                     \* session_active true, -1 after end_session deleted it
    captures,        \* capture-and-classify requests that passed the gate
    appended,        \* per user, the entries add_detection_to_history stored,
                     \* oldest first
    bridge_pc,       \* where the bridge's main loop stands
    cached_token,    \* _cached_token of the bridge
    cache_age,       \* time.time() - _token_cache_time
    jwt_token,       \* the bridge's local jwt_token
    ready,           \* READY lines the bridge has read
    serial_out,      \* the lines the bridge has written to the serial port
    inflight,        \* requests the server accepted and has not yet served
    served,          \* the requests served out of inflight, in that order
    logins,          \* per customer, the logins so far: the JWT in use
    unattended       \* no customer asked for an insertion since the READY
                     \* in hand was read, and none had a session then

server_vars == <<redis_up, sessions, history, customer_tokens, transactions,
                 users, machines, response, requested, granted, captures,
                 appended>>

bridge_vars == <<bridge_pc, cached_token, cache_age, jwt_token, ready,
                 serial_out>>

loop_vars == <<inflight, served>>

(***************************************************************************)
(* Bounds of the model.                                                    *)
(***************************************************************************)
MaxLabels == 3

\* label.description values the label detector may return
Descriptions ==
    { "Plastic bottle", "Aluminum can", "Glass", "Transparency", "Bottle",
      "Plastic", "Silver", "Tin", "Drinking water" }

\* label.score values, in 1/10000
Scores == { 8500, 9000 }

Detections == [description : Descriptions, score : Scores]

LabelSets == UNION { [1..n -> Detections] : n \in 0..MaxLabels }

\* descriptions that reach the strict validation of a matched label
ValidationDescriptions ==
    { "Bottle can plastic", "Beer bottle can", "Bottled water can",
      "Can of soda", "Plastic bottle" }

\* descriptions that reach the promotion of "plastic" and the generic
\* bottle and can rules
ContextDescriptions ==
    { "Plastic", "Soda", "Water", "Bottle", "Can", "Glass", "Aluminum can" }

\* descriptions that reach the glass override
GlassDescriptions ==
    { "Glass", "Jar", "Plastic bottle glass", "Glass bottle plastic",
      "Transparency", "Water", "Plastic bottle" }

\* descriptions of every outcome, with unknown ones that carry a context
\* word and one that carries none
MixedDescriptions ==
    { "Cylinder", "Transparency", "Silver", "Water", "Glass", "Plastic",
      "Plastic bottle", "Aluminum can" }

\* every label.description of the model
Vocabulary ==
    Descriptions \cup ValidationDescriptions \cup ContextDescriptions
        \cup GlassDescriptions \cup MixedDescriptions

LabelSetsOver(descriptions) ==
    UNION { [1..n -> [description : descriptions, score : Scores]] :
                n \in 0..MaxLabels }

\* customers, by users.id
Users == { 1, 2 }

\* logins per customer: each login issues a new JWT
MaxLogins == 2

\* capture-and-classify requests that pass the session gate
MaxCaptures == 1

\* READY lines the Arduino sends
MaxReady == 2

\* seconds that pass in one step of the clock
TickSeconds == 300

(***************************************************************************)
(* Strings: str.lower, str.split, the substring test `a in b`.             *)
(***************************************************************************)
UpperCase == "ABCDEFGHIJKLMNOPQRSTUVWXYZ"
LowerCase == "abcdefghijklmnopqrstuvwxyz"

LowerChar(c) ==
    IF \E i \in 1..Len(UpperCase) : SubSeq(UpperCase, i, i) = c
    THEN LET i == CHOOSE k \in 1..Len(UpperCase) : SubSeq(UpperCase, k, k) = c
         IN  SubSeq(LowerCase, i, i)
    ELSE c

RECURSIVE Lower(_)
Lower(s) ==
    IF Len(s) = 0 THEN s
    ELSE LowerChar(SubSeq(s, 1, 1)) \o Lower(SubSeq(s, 2, Len(s)))

\* `p in s` on strings
Contains(p, s) ==
    \E i \in 1..(Len(s) - Len(p) + 1) : SubSeq(s, i, i + Len(p) - 1) = p

StartsWith(s, p) == Len(p) <= Len(s) /\ SubSeq(s, 1, Len(p)) = p

EndsWith(s, p) == Len(p) <= Len(s) /\ SubSeq(s, Len(s) - Len(p) + 1, Len(s)) = p

IsSpace(s, i) == SubSeq(s, i, i) = " "

\* set(s.split()): the maximal runs of non-blank characters
Split(s) ==
    { SubSeq(s, i, j) : <<i, j>> \in
        { p \in (1..Len(s)) \X (1..Len(s)) :
            /\ p[1] <= p[2]
            /\ \A k \in p[1]..p[2] : ~IsSpace(s, k)
            /\ (p[1] = 1 \/ IsSpace(s, p[1] - 1))
            /\ (p[2] = Len(s) \/ IsSpace(s, p[2] + 1)) } }

(***************************************************************************)
(* The vocabulary.                                                         *)
(***************************************************************************)
ACCEPTED_LABELS ==
    << "plastic bottle", "water bottle", "soda bottle", "drink bottle",
       "bottled water", "drinking water",
       "aluminum can", "tin can", "soda can", "beer can", "drink can",
       "steel and tin cans", "soft drink can" >>

REJECTED_LABELS ==
    << "glass", "glass bottle", "wine bottle", "beer bottle", "glass container",
       "jar", "glass jar", "ceramic", "porcelain",
       "container", "drinkware", "beverage", "drink",
       "bottle",
       "can",
       "flashlight", "torch", "light", "lamp", "electronic device", "device",
       "battery", "metal scrap",
       "bin", "trash can", "garbage can", "wastebasket",
       "bag", "plastic bag", "paper bag",
       "box", "cardboard box",
       "cup", "mug", "coffee cup",
       "food", "fruit", "vegetable",
       "book", "paper", "newspaper" >>

(***************************************************************************)
(* _process_labels, first pass: one info record per label.                 *)
(***************************************************************************)
\* label.description.lower() and set(label_name.split()) of a description
TextOf(description) ==
    [name_lower |-> Lower(description), words |-> Split(Lower(description))]

\* TextOf of every description of the model, computed once
LabelText == [d \in Vocabulary |-> TextOf(d)]

LabelInfo(label) ==
    [ name       |-> label.description,
      name_lower |-> LabelText[label.description].name_lower,
      words      |-> LabelText[label.description].words,
      confidence |-> label.score ]

AllLabelsInfo(ls) == [i \in 1..Len(ls) |-> LabelInfo(ls[i])]

\* the set-wide context clues
BottleWords(info) ==
    "bottle" \in info.words \/ "water" \in info.words
        \/ "soda" \in info.words \/ "drink" \in info.words
CanWords(info) ==
    "can" \in info.words \/ "aluminum" \in info.words
        \/ "tin" \in info.words \/ "steel" \in info.words
PlasticWords(info) == "plastic" \in info.words
GlassWords(info) == "glass" \in info.words \/ "jar" \in info.words
TransparencyWords(info) ==
    "transparency" \in info.words \/ "transparent" \in info.words
SilverWords(info) == "silver" \in info.words \/ "metallic" \in info.words

Context(all) ==
    [ has_bottle_context  |-> \E i \in 1..Len(all) : BottleWords(all[i]),
      has_can_context     |-> \E i \in 1..Len(all) : CanWords(all[i]),
      has_plastic_context |-> \E i \in 1..Len(all) : PlasticWords(all[i]),
      has_glass_context   |-> \E i \in 1..Len(all) : GlassWords(all[i]),
      has_transparency    |-> \E i \in 1..Len(all) : TransparencyWords(all[i]),
      has_silver_metallic |-> \E i \in 1..Len(all) : SilverWords(all[i]) ]

(***************************************************************************)
(* _process_labels, the per-label loop body.                               *)
(***************************************************************************)
\* set(accepted.split()) of every accepted phrase, computed once
AcceptedWords == [i \in 1..Len(ACCEPTED_LABELS) |-> Split(ACCEPTED_LABELS[i])]

\* the test of the loop over ACCEPTED_LABELS, for the phrase at index i
MatchesAccepted(i, info) ==
    AcceptedWords[i] \subseteq info.words
        \/ Contains(ACCEPTED_LABELS[i], info.name_lower)

\* the index of the phrase the loop breaks at, 0 when it runs to the end
FirstAccepted(info) ==
    IF \E i \in 1..Len(ACCEPTED_LABELS) : MatchesAccepted(i, info)
    THEN CHOOSE i \in 1..Len(ACCEPTED_LABELS) :
            /\ MatchesAccepted(i, info)
            /\ \A j \in 1..(i - 1) : ~MatchesAccepted(j, info)
    ELSE 0

IsExplicitlyAccepted(info) ==
    LET k == FirstAccepted(info) IN
    /\ k # 0
    /\ \/ ACCEPTED_LABELS[k] = info.name_lower
       \/ Contains(ACCEPTED_LABELS[k], info.name_lower)
       \/ Contains(info.name_lower, ACCEPTED_LABELS[k])

\* ValidatedAccepted applying the strict validation to explicit matches too
ValidatedAccepted_AlwaysStrict(info) ==
    LET w == info.words
        bottle_fails == /\ "bottle" \in w /\ "plastic" \notin w /\ "water" \notin w
                        /\ "soda" \notin w /\ "drink" \notin w
        can_fails    == /\ "can" \in w /\ "aluminum" \notin w /\ "tin" \notin w
                        /\ "steel" \notin w /\ "soda" \notin w
                        /\ "beer" \notin w /\ "drink" \notin w
    IN  FirstAccepted(info) # 0 /\ ~bottle_fails /\ ~can_fails

\* is_accepted after the strict validation of a matched label
ValidatedAccepted(info) ==
    LET w == info.words
        has_plastic  == "plastic" \in w
        has_aluminum == "aluminum" \in w \/ "tin" \in w \/ "steel" \in w
        has_bottle   == "bottle" \in w
        has_can      == "can" \in w
        bottle_fails == /\ has_bottle /\ ~has_plastic /\ "water" \notin w
                        /\ "soda" \notin w /\ "drink" \notin w
        can_fails    == /\ has_can /\ ~has_aluminum /\ "soda" \notin w
                        /\ "beer" \notin w /\ "drink" \notin w
    IN  /\ FirstAccepted(info) # 0
        /\ (IsExplicitlyAccepted(info) \/ (~bottle_fails /\ ~can_fails))

\* the acceptance of every description of the model, computed once
Acceptance ==
    [d \in Vocabulary |->
        [ matched  |-> FirstAccepted(LabelText[d]) # 0,
          explicit |-> IsExplicitlyAccepted(LabelText[d]),
          accepted |-> ValidatedAccepted(LabelText[d]) ]]

\* PlasticPromoted asking for bottle context only
PlasticPromoted_ContextOnly(info, all, ctx) ==
    /\ ~Acceptance[info.name].accepted
    /\ info.name_lower = "plastic"
    /\ ctx.has_bottle_context
    /\ ~ctx.has_glass_context

\* the context-aware promotion of a bare "plastic"
PlasticPromoted(info, all, ctx) ==
    /\ ~Acceptance[info.name].accepted
    /\ info.name_lower = "plastic"
    /\ ctx.has_bottle_context
    /\ ~ctx.has_glass_context
    /\ \E j \in 1..Len(all) :
          /\ all[j] # info
          /\ ("water" \in all[j].words \/ "bottle" \in all[j].words)

RejectedWords == UNION { Split(REJECTED_LABELS[i]) : i \in 1..Len(REJECTED_LABELS) }

\* RejectedCheck sparing a bare "bottle" when the set has plastic context
RejectedCheck_ContextSpares(info, ctx) ==
    LET n == info.name_lower
        w == info.words
    IN  IF n = "bottle" THEN ~ctx.has_plastic_context
        ELSE \/ \E rw \in RejectedWords : rw \in w
             \/ n = "can"
             \/ (n = "plastic" /\ ~ctx.has_bottle_context /\ ~ctx.has_can_context)

\* is_rejected as computed when the label is not accepted
RejectedCheck(info, ctx) ==
    LET n == info.name_lower
        w == info.words
    IN  \/ \E rw \in RejectedWords : rw \in w
        \/ "glass" \in w \/ "jar" \in w
        \/ /\ \/ n = "bottle"
              \/ /\ StartsWith(n, "bottle ")
                 /\ "plastic" \notin w /\ "water" \notin w
                 /\ "soda" \notin w /\ "drink" \notin w
           /\ ~ctx.has_plastic_context
        \/ n = "can"
        \/ /\ EndsWith(n, " can")
           /\ "aluminum" \notin w /\ "tin" \notin w /\ "soda" \notin w
           /\ "beer" \notin w /\ "drink" \notin w /\ "steel" \notin w
        \/ (n = "plastic" /\ ~ctx.has_bottle_context /\ ~ctx.has_can_context)
        \/ n \in {"container", "drinkware", "beverage", "drink"}

PromotedDescription == "Plastic bottle (from: Plastic + context)"

\* ProcessLabel checking the rejected vocabulary of accepted labels too
ProcessLabel_RejectAccepted(info, all, ctx) ==
    LET promoted    == PlasticPromoted(info, all, ctx)
        accepted0   == Acceptance[info.name].accepted \/ promoted
        description == IF promoted THEN PromotedDescription ELSE info.name
        is_rejected == RejectedCheck(info, ctx)
        kind == IF is_rejected THEN "rejected"
                ELSE IF accepted0 THEN "accepted" ELSE "unknown"
    IN  [kind |-> kind, name |-> description, confidence |-> info.confidence]

\* ProcessLabel without the glass test of the accepted branch
ProcessLabel_NoFinalGlassCheck(info, all, ctx) ==
    LET promoted     == PlasticPromoted(info, all, ctx)
        accepted0    == Acceptance[info.name].accepted \/ promoted
        description  == IF promoted THEN PromotedDescription ELSE info.name
        rejected0    == ~accepted0 /\ RejectedCheck(info, ctx)
        glass_forced == /\ GlassWords(info)
                        /\ ~Acceptance[info.name].explicit
                        /\ ~(ctx.has_transparency /\ ctx.has_bottle_context)
        is_rejected  == rejected0 \/ glass_forced
        is_accepted  == accepted0 /\ ~glass_forced
        n            == info.name_lower
        kind ==
            IF is_rejected THEN "rejected"
            ELSE IF is_accepted THEN
                IF n \in {"bottle", "can"} THEN
                    IF (n = "bottle" /\ ctx.has_plastic_context)
                          \/ (n = "can" /\ ctx.has_can_context)
                    THEN "accepted" ELSE "rejected"
                ELSE IF n \notin {"container", "drinkware", "beverage", "drink"}
                    THEN "accepted" ELSE "rejected"
            ELSE "unknown"
    IN  [kind |-> kind, name |-> description, confidence |-> info.confidence]

\* the outcome of one label: [kind, name, confidence]
ProcessLabel(info, all, ctx) ==
    LET promoted     == PlasticPromoted(info, all, ctx)
        accepted0    == Acceptance[info.name].accepted \/ promoted
        description  == IF promoted THEN PromotedDescription ELSE info.name
        rejected0    == ~accepted0 /\ RejectedCheck(info, ctx)
        glass_forced == /\ GlassWords(info)
                        /\ ~Acceptance[info.name].explicit
                        /\ ~(ctx.has_transparency /\ ctx.has_bottle_context)
        is_rejected  == rejected0 \/ glass_forced
        is_accepted  == accepted0 /\ ~glass_forced
        n            == info.name_lower
        kind ==
            IF is_rejected THEN "rejected"
            ELSE IF is_accepted THEN
                IF ~GlassWords(info) THEN
                    IF n \in {"bottle", "can"} THEN
                        IF (n = "bottle" /\ ctx.has_plastic_context)
                              \/ (n = "can" /\ ctx.has_can_context)
                        THEN "accepted" ELSE "rejected"
                    ELSE IF n \notin {"container", "drinkware", "beverage", "drink"}
                        THEN "accepted" ELSE "rejected"
                ELSE "rejected"
            ELSE "unknown"
    IN  [kind |-> kind, name |-> description, confidence |-> info.confidence]

Outcomes(all, ctx) == [i \in 1..Len(all) |-> ProcessLabel(all[i], all, ctx)]

Item(o) == [name |-> o.name, confidence |-> o.confidence]

RECURSIVE ItemsOfKind(_, _)
ItemsOfKind(os, kind) ==
    IF os = <<>> THEN <<>>
    ELSE (IF Head(os).kind = kind THEN <<Item(Head(os))>> ELSE <<>>)
            \o ItemsOfKind(Tail(os), kind)

(***************************************************************************)
(* _process_labels, the verdict.                                           *)
(***************************************************************************)
\* the discounts of the fallback rules, in percent
FallbackBottleDiscount == 70
FallbackGlassDiscount == 65
FallbackCanDiscount == 70

\* what max() of an empty sequence does
ValueError == [type |-> "ValueError", confidence |-> 0]

\* MaxConfidence keeping the last item of highest confidence
MaxConfidence_LastOnTie(items) ==
    items[CHOOSE i \in 1..Len(items) :
            /\ \A j \in 1..Len(items) : items[j].confidence <= items[i].confidence
            /\ \A j \in (i + 1)..Len(items) : items[j].confidence < items[i].confidence]

\* MaxConfidence taking the first item, whatever its confidence
MaxConfidence_Head(items) == items[1]

\* max(items, key=confidence): the first item of highest confidence
MaxConfidence(items) ==
    items[CHOOSE i \in 1..Len(items) :
            /\ \A j \in 1..Len(items) : items[j].confidence <= items[i].confidence
            /\ \A j \in 1..(i - 1) : items[j].confidence < items[i].confidence]

\* MaterialOf without the branch for cans
MaterialOf_NoCanBranch(item_name) == "PLASTIC"

MaterialOf(item_name) ==
    LET item_name_lower == Lower(item_name) IN
    IF Contains("bottle", item_name_lower) /\ ~Contains("glass", item_name_lower)
    THEN "PLASTIC"
    ELSE IF Contains("can", item_name_lower) THEN "NON_PLASTIC"
    ELSE "PLASTIC"

\* MaterialOf of every item name of the model, computed once
Material == [n \in Vocabulary \cup {PromotedDescription} |-> MaterialOf(n)]

\* AcceptedVerdict taking the first accepted item instead of the best one
AcceptedVerdict_FirstItem(accepted) ==
    [type |-> Material[accepted[1].name], confidence |-> accepted[1].confidence]

AcceptedVerdict(accepted) ==
    LET best_item == MaxConfidence(accepted) IN
    [type |-> Material[best_item.name], confidence |-> best_item.confidence]

\* Discounted taking the last label of the set instead of the best one
Discounted_LastLabel(type, all, percent) ==
    IF all = <<>> THEN ValueError
    ELSE [type |-> type,
          confidence |-> (all[Len(all)].confidence * percent) \div 100]

\* a fallback rule's verdict: a discount of the best label of the whole set
Discounted(type, all, percent) ==
    IF all = <<>> THEN ValueError
    ELSE [type |-> type,
          confidence |-> (MaxConfidence(all).confidence * percent) \div 100]

\* FallbackVerdict with the default of the earlier classifier: NON_PLASTIC at 0.5
FallbackVerdict_DefaultNonPlastic(all, ctx) ==
    IF ctx.has_transparency /\ ctx.has_bottle_context
    THEN Discounted("PLASTIC", all, FallbackBottleDiscount)
    ELSE IF ctx.has_glass_context /\ ctx.has_transparency
    THEN Discounted("PLASTIC", all, FallbackGlassDiscount)
    ELSE IF ctx.has_silver_metallic /\ ctx.has_can_context /\ ~ctx.has_glass_context
    THEN Discounted("NON_PLASTIC", all, FallbackCanDiscount)
    ELSE [type |-> "NON_PLASTIC", confidence |-> 5000]

\* FallbackVerdict with the glass rule tried before the bottle rule
FallbackVerdict_GlassFirst(all, ctx) ==
    IF ctx.has_glass_context /\ ctx.has_transparency
    THEN Discounted("PLASTIC", all, FallbackGlassDiscount)
    ELSE IF ctx.has_transparency /\ ctx.has_bottle_context
    THEN Discounted("PLASTIC", all, FallbackBottleDiscount)
    ELSE IF ctx.has_silver_metallic /\ ctx.has_can_context /\ ~ctx.has_glass_context
    THEN Discounted("NON_PLASTIC", all, FallbackCanDiscount)
    ELSE [type |-> "REJECTED", confidence |-> 0]

\* FallbackVerdict whose bottle rule does not ask for transparency
FallbackVerdict_BottleAlone(all, ctx) ==
    IF ctx.has_bottle_context
    THEN Discounted("PLASTIC", all, FallbackBottleDiscount)
    ELSE IF ctx.has_glass_context /\ ctx.has_transparency
    THEN Discounted("PLASTIC", all, FallbackGlassDiscount)
    ELSE IF ctx.has_silver_metallic /\ ctx.has_can_context /\ ~ctx.has_glass_context
    THEN Discounted("NON_PLASTIC", all, FallbackCanDiscount)
    ELSE [type |-> "REJECTED", confidence |-> 0]

\* FallbackVerdict whose can rule does not exclude glass
FallbackVerdict_CanDespiteGlass(all, ctx) ==
    IF ctx.has_transparency /\ ctx.has_bottle_context
    THEN Discounted("PLASTIC", all, FallbackBottleDiscount)
    ELSE IF ctx.has_glass_context /\ ctx.has_transparency
    THEN Discounted("PLASTIC", all, FallbackGlassDiscount)
    ELSE IF ctx.has_silver_metallic /\ ctx.has_can_context
    THEN Discounted("NON_PLASTIC", all, FallbackCanDiscount)
    ELSE [type |-> "REJECTED", confidence |-> 0]

\* FallbackVerdict taking the best label once, before the rules are tried
FallbackVerdict_EagerMax(all, ctx) ==
    LET best == Discounted("PLASTIC", all, 100) IN
    IF best = ValueError THEN ValueError
    ELSE IF ctx.has_transparency /\ ctx.has_bottle_context
    THEN [type |-> "PLASTIC",
          confidence |-> (best.confidence * FallbackBottleDiscount) \div 100]
    ELSE IF ctx.has_glass_context /\ ctx.has_transparency
    THEN [type |-> "PLASTIC",
          confidence |-> (best.confidence * FallbackGlassDiscount) \div 100]
    ELSE IF ctx.has_silver_metallic /\ ctx.has_can_context /\ ~ctx.has_glass_context
    THEN [type |-> "NON_PLASTIC",
          confidence |-> (best.confidence * FallbackCanDiscount) \div 100]
    ELSE [type |-> "REJECTED", confidence |-> 0]

FallbackVerdict(all, ctx) ==
    IF ctx.has_transparency /\ ctx.has_bottle_context
    THEN Discounted("PLASTIC", all, FallbackBottleDiscount)
    ELSE IF ctx.has_glass_context /\ ctx.has_transparency
    THEN Discounted("PLASTIC", all, FallbackGlassDiscount)
    ELSE IF ctx.has_silver_metallic /\ ctx.has_can_context /\ ~ctx.has_glass_context
    THEN Discounted("NON_PLASTIC", all, FallbackCanDiscount)
    ELSE [type |-> "REJECTED", confidence |-> 0]

\* Verdict taking the confidence of the best label of the whole set
Verdict_BestOfAll(accepted, all, ctx) ==
    IF accepted # <<>>
    THEN [type |-> AcceptedVerdict(accepted).type,
          confidence |-> MaxConfidence(all).confidence]
    ELSE FallbackVerdict(all, ctx)

Verdict(accepted, all, ctx) ==
    IF accepted # <<>> THEN AcceptedVerdict(accepted) ELSE FallbackVerdict(all, ctx)

\* _process_labels as a function of the label annotations
Classify(ls) ==
    LET all == AllLabelsInfo(ls)
        ctx == Context(all)
    IN  Verdict(ItemsOfKind(Outcomes(all, ctx), "accepted"), all, ctx)

(***************************************************************************)
(* The classifier as a state machine: the label detector's answer is the   *)
(* input, _process_labels is the one step.                                 *)
(***************************************************************************)
None == [type |-> "None", confidence |-> 0]

\* a Redis key that does not exist, a Python None
Nil == [nil |-> TRUE]

\* the server and the bridge right after they start
ServerStart ==
    /\ redis_up \in BOOLEAN
    /\ sessions = [u \in Users |-> Nil]
    /\ history = [u \in Users |-> <<>>]
    /\ customer_tokens = <<>>
    /\ transactions = <<>>
    /\ users = [u \in Users |-> [total_points |-> 0, total_transactions |-> 0,
                                 total_plastic |-> 0, total_metal |-> 0]]
    /\ machines = [m \in {1} |-> 0]
    /\ response = Nil
    /\ requested = [u \in Users |-> -1]
    /\ granted = [u \in Users |-> -1]
    /\ captures = 0
    /\ appended = [u \in Users |-> <<>>]

BridgeStart ==
    /\ bridge_pc = "readline"
    /\ cached_token = Nil
    /\ cache_age = 0
    /\ jwt_token = Nil
    /\ ready = 0
    /\ serial_out = <<>>
    /\ inflight = {}
    /\ served = <<>>
    /\ logins = [u \in Users |-> 1]
    /\ unattended = FALSE

Init ==
    /\ labels \in LabelSets
    /\ result = None
    /\ context = Context(<<>>)
    /\ outcomes = <<>>
    /\ accepted_items = <<>>
    /\ rejected_items = <<>>
    /\ unknown_items = <<>>
    /\ ServerStart /\ redis_up
    /\ BridgeStart

ProcessLabels ==
    /\ result = None
    /\ LET all == AllLabelsInfo(labels) IN
          /\ context' = Context(all)
          /\ outcomes' = Outcomes(all, context')
          /\ accepted_items' = ItemsOfKind(outcomes', "accepted")
          /\ rejected_items' = ItemsOfKind(outcomes', "rejected")
          /\ unknown_items' = ItemsOfKind(outcomes', "unknown")
          /\ result' = Verdict(accepted_items', all, context')
    /\ UNCHANGED <<labels, server_vars, bridge_vars, loop_vars, logins, unattended>>

Next == ProcessLabels

Spec == Init /\ [][Next]_vars

\* the classifier before a call with labels of the given descriptions
InitOver(descriptions) ==
    /\ labels \in LabelSetsOver(descriptions)
    /\ result = None
    /\ context = Context(<<>>)
    /\ outcomes = <<>>
    /\ accepted_items = <<>>
    /\ rejected_items = <<>>
    /\ unknown_items = <<>>
    /\ ServerStart /\ redis_up
    /\ BridgeStart

ValidationInit == InitOver(ValidationDescriptions)

ValidationSpec == ValidationInit /\ [][Next]_vars

ContextInit == InitOver(ContextDescriptions)

ContextSpec == ContextInit /\ [][Next]_vars

GlassInit == InitOver(GlassDescriptions)

GlassSpec == GlassInit /\ [][Next]_vars

MixedInit == InitOver(MixedDescriptions)

MixedSpec == MixedInit /\ [][Next]_vars

(***************************************************************************)
(* Properties of the classifier.                                           *)
(***************************************************************************)
Done == result # None

Rejected == [type |-> "REJECTED", confidence |-> 0]

NameLower(i) == LabelText[labels[i].description].name_lower

\* the labels of the input are exactly these descriptions, each at least once
ConsistsOf(names) == names = { NameLower(i) : i \in 1..Len(labels) }

\* the highest score of the input, 0 for the empty input
HighestScore ==
    IF labels = <<>> THEN 0
    ELSE CHOOSE c \in { labels[i].score : i \in 1..Len(labels) } :
            \A i \in 1..Len(labels) : labels[i].score <= c

\* the lower-cased name of every item the loop can append
ItemNameLower == [n \in Descriptions \cup {PromotedDescription} |-> Lower(n)]

BottlePhrases == { ACCEPTED_LABELS[i] : i \in 1..6 }

CanPhrases == { ACCEPTED_LABELS[i] : i \in 7..Len(ACCEPTED_LABELS) }

ExactAccepted(i) == NameLower(i) \in BottlePhrases \cup CanPhrases

\* item i of accepted_items is the one max() returns
IsBestAccepted(i) ==
    /\ \A j \in 1..Len(accepted_items) :
          accepted_items[j].confidence <= accepted_items[i].confidence
    /\ \A j \in 1..(i - 1) :
          accepted_items[j].confidence < accepted_items[i].confidence

\* C1: the empty label set is classified REJECTED with confidence 0.0.
C1_EmptyIsRejected == (Done /\ labels = <<>>) => result = Rejected

C1_Witness == Done /\ labels = <<>> /\ result.type = "REJECTED"

\* C2: when some label is exactly an accepted phrase, the verdict is never
\* REJECTED, every such label is among the accepted items, the confidence is
\* the score of the winning accepted label, and the material is NON_PLASTIC
\* when the winner is a can phrase and PLASTIC when it is a bottle phrase.
C2_ExactPhraseAccepted ==
    (Done /\ \E i \in 1..Len(labels) : ExactAccepted(i)) =>
        /\ result.type \in {"PLASTIC", "NON_PLASTIC"}
        /\ \A i \in 1..Len(labels) : ExactAccepted(i) =>
              \E k \in 1..Len(accepted_items) :
                  accepted_items[k] = [name |-> labels[i].description,
                                       confidence |-> labels[i].score]
        /\ \E k \in 1..Len(accepted_items) :
              /\ IsBestAccepted(k)
              /\ result.confidence = accepted_items[k].confidence
              /\ ItemNameLower[accepted_items[k].name] \in CanPhrases
                    => result.type = "NON_PLASTIC"
              /\ ItemNameLower[accepted_items[k].name] \in BottlePhrases
                    => result.type = "PLASTIC"

C2_Witness ==
    /\ Done
    /\ labels = << [description |-> "Aluminum can", score |-> 8500] >>
    /\ result = [type |-> "NON_PLASTIC", confidence |-> 8500]

\* C3 as claimed: 'glass' at 0.9 with 'transparency' at 0.85 gives PLASTIC at
\* 0.85 * 0.65 = 0.5525.
C3_AsClaimed ==
    (/\ Done
     /\ labels = << [description |-> "Glass", score |-> 9000],
                    [description |-> "Transparency", score |-> 8500] >>)
        => result = [type |-> "PLASTIC", confidence |-> 5525]

\* C3 amended: 'glass' at 0.9 with 'transparency' at 0.85, in either order,
\* gives PLASTIC through fallback rule (b) at 0.9 * 0.65 = 0.585: the discount
\* is taken of the highest score of the set, which is that of 'glass'.
C3_GlassTransparency ==
    (/\ Done
     /\ Len(labels) = 2
     /\ \E i, j \in 1..2 :
          /\ labels[i] = [description |-> "Glass", score |-> 9000]
          /\ labels[j] = [description |-> "Transparency", score |-> 8500])
        => /\ accepted_items = <<>>
           /\ result = [type |-> "PLASTIC", confidence |-> 5850]

C3_Witness ==
    /\ Done
    /\ labels = << [description |-> "Glass", score |-> 9000],
                   [description |-> "Transparency", score |-> 8500] >>
    /\ result.confidence = 5850

\* the claimed material of a label name: PLASTIC if it contains "bottle" and
\* not "glass", otherwise NON_PLASTIC if it contains "can", otherwise PLASTIC
ClaimedMaterial ==
    [d \in Descriptions |->
        LET n == LabelText[d].name_lower IN
        IF Contains("bottle", n) /\ ~Contains("glass", n) THEN "PLASTIC"
        ELSE IF Contains("can", n) THEN "NON_PLASTIC"
        ELSE "PLASTIC"]

\* the indices of the labels whose outcome is accepted
AcceptedIndices ==
    { i \in 1..Len(outcomes) : outcomes[i].kind = "accepted" }

C5_FallbackOrder ==
    (Done /\ accepted_items = <<>>) =>
        LET ctx == context
            c   == HighestScore
        IN  IF ctx.has_transparency /\ ctx.has_bottle_context
            THEN result = [type |-> "PLASTIC", confidence |-> (c * 70) \div 100]
            ELSE IF ctx.has_glass_context /\ ctx.has_transparency
            THEN result = [type |-> "PLASTIC", confidence |-> (c * 65) \div 100]
            ELSE IF /\ ctx.has_silver_metallic /\ ctx.has_can_context
                    /\ ~ctx.has_glass_context
            THEN result = [type |-> "NON_PLASTIC", confidence |-> (c * 70) \div 100]
            ELSE result = Rejected

\* rules (a) and (b) both apply and no label is accepted
C5_Witness ==
    /\ Done
    /\ accepted_items = <<>>
    /\ context.has_transparency
    /\ context.has_bottle_context
    /\ context.has_glass_context
    /\ result.type = "PLASTIC"

\* C6: with an accepted label, the verdict is that of the accepted label of
\* highest confidence, the first one in iteration order on a tie: its
\* confidence unchanged, and the material its name gives.
C6_BestAcceptedLabel ==
    (Done /\ AcceptedIndices # {}) =>
        \E w \in AcceptedIndices :
            /\ \A j \in AcceptedIndices : labels[j].score <= labels[w].score
            /\ \A j \in AcceptedIndices : j < w => labels[j].score < labels[w].score
            /\ result.confidence = labels[w].score
            /\ result.type = ClaimedMaterial[labels[w].description]

\* two accepted labels of different material tie, the first one wins
C6_Witness ==
    /\ Done
    /\ Len(labels) = 2
    /\ NameLower(1) = "aluminum can"
    /\ NameLower(2) = "plastic bottle"
    /\ labels[1].score = labels[2].score
    /\ result.type = "NON_PLASTIC"

\* C7: a label set consisting only of the bare label 'bottle' is REJECTED
\* with confidence 0.0.
C7_BareBottleRejected ==
    (Done /\ ConsistsOf({"bottle"})) =>
        /\ result = Rejected
        /\ accepted_items = <<>>

C7_Witness ==
    /\ Done
    /\ labels = << [description |-> "Bottle", score |-> 8500] >>
    /\ rejected_items = << [name |-> "Bottle", confidence |-> 8500] >>
    /\ result.type = "REJECTED"

\* C8: a label set of 'glass' alone is REJECTED at 0.0, and whenever
\* has_glass_context holds without has_transparency the verdict is not
\* REJECTED only if some label matches an accepted phrase.
C8_GlassWithoutTransparency ==
    /\ (Done /\ ConsistsOf({"glass"})) => result = Rejected
    /\ (/\ Done
        /\ context.has_glass_context
        /\ ~context.has_transparency
        /\ result.type # "REJECTED")
          => \E i \in 1..Len(labels) : Acceptance[labels[i].description].matched

\* glass context, no transparency, and an accepted phrase carries the verdict
C8_Witness ==
    /\ Done
    /\ context.has_glass_context
    /\ ~context.has_transparency
    /\ context.has_silver_metallic
    /\ result.type = "NON_PLASTIC"

\* C9: REJECTED comes with confidence 0.0; with an accepted label the
\* confidence is that of the best accepted label; a discounted confidence
\* (0.70 or 0.65 of the highest score) comes only when no label is accepted.
C9_ConfidenceInvariant ==
    Done =>
        /\ result.type = "REJECTED" => result.confidence = 0
        /\ AcceptedIndices # {} =>
              /\ \E w \in AcceptedIndices : result.confidence = labels[w].score
              /\ \A j \in AcceptedIndices : labels[j].score <= result.confidence
        /\ result.confidence \in { (HighestScore * 70) \div 100,
                                   (HighestScore * 65) \div 100 }
              => AcceptedIndices = {}

\* the best accepted label is not the first accepted one, a label is rejected
C9_Witness ==
    /\ Done
    /\ Len(accepted_items) = 2
    /\ accepted_items[1].confidence < accepted_items[2].confidence
    /\ result.confidence = accepted_items[2].confidence
    /\ rejected_items # <<>>

\* C10: _process_labels returns a verdict for every label set and raises
\* nothing: max() is never taken of an empty sequence.
C10_Total ==
    Done => /\ result.type \in {"PLASTIC", "NON_PLASTIC", "REJECTED"}
            /\ result # ValueError

\* the empty label set is classified
C10_Witness ==
    /\ Done
    /\ labels = <<>>
    /\ accepted_items = <<>> /\ rejected_items = <<>> /\ unknown_items = <<>>
    /\ result # ValueError


(***************************************************************************)
(* The session gate and the history buffer of services/session_service.py. *)
(* A function of the service is an operator on the Redis keys it touches;  *)
(* one that both answers and writes returns a record of the two.  up is    *)
(* whether get_redis_client() returned a client.                           *)
(***************************************************************************)
SESSION_TTL == 600

MAX_DETECTION_HISTORY == 5

\* the JWTs: sub is the customer, login tells one login's token from another
Jwts == [sub : Users, login : 1..MaxLogins]

Min(a, b) == IF a < b THEN a ELSE b

Max(a, b) == IF a > b THEN a ELSE b

\* Redis serves a key until its time to live has run out
Live(key) == key # Nil /\ key.ttl > 0

create_session_HalfTtl(up, store, user_id, token) ==
    IF ~up THEN [ok |-> FALSE, sessions |-> store]
    ELSE [ok |-> TRUE,
          sessions |-> [store EXCEPT ![user_id] =
              [token |-> token, user_id |-> user_id,
               ttl |-> SESSION_TTL \div 2]]]

create_session(up, store, user_id, token) ==
    IF ~up THEN [ok |-> FALSE, sessions |-> store]
    ELSE [ok |-> TRUE,
          sessions |-> [store EXCEPT ![user_id] =
              [token |-> token, user_id |-> user_id, ttl |-> SESSION_TTL]]]

get_session_IgnoreExpiry(up, store, user_id) ==
    IF ~up THEN Nil ELSE store[user_id]

get_session(up, store, user_id) ==
    IF ~up THEN Nil
    ELSE IF Live(store[user_id]) THEN store[user_id] ELSE Nil

is_session_active(up, store, user_id) ==
    IF ~up THEN FALSE ELSE get_session(up, store, user_id) # Nil

get_active_session_for_user(up, store, user_id) ==
    get_session(up, store, user_id)

end_session_KeepRecord(up, store, user_id) ==
    [ok |-> up /\ Live(store[user_id]), sessions |-> store]

end_session(up, store, user_id) ==
    IF ~up THEN [ok |-> FALSE, sessions |-> store]
    ELSE LET deleted == IF Live(store[user_id]) THEN 1 ELSE 0 IN
         [ok |-> deleted > 0, sessions |-> [store EXCEPT ![user_id] = Nil]]

\* a write-back of a history read before the entry now newest was stored
add_detection_to_history_StaleRead(up, hist, user_id, detection_data) ==
    IF ~up THEN [ok |-> FALSE, history |-> hist]
    ELSE [ok |-> TRUE,
          history |-> [hist EXCEPT ![user_id] =
              IF hist[user_id] = <<>> THEN <<detection_data>>
              ELSE <<detection_data>> \o Tail(hist[user_id])]]

add_detection_to_history_Overwrite(up, hist, user_id, detection_data) ==
    IF ~up THEN [ok |-> FALSE, history |-> hist]
    ELSE [ok |-> TRUE, history |-> [hist EXCEPT ![user_id] = <<detection_data>>]]

add_detection_to_history(up, hist, user_id, detection_data) ==
    IF ~up THEN [ok |-> FALSE, history |-> hist]
    ELSE LET inserted == <<detection_data>> \o hist[user_id] IN
         [ok |-> TRUE,
          history |-> [hist EXCEPT ![user_id] =
              SubSeq(inserted, 1, Min(Len(inserted), MAX_DETECTION_HISTORY))]]

get_detection_history(up, hist, user_id) ==
    IF ~up THEN <<>> ELSE hist[user_id]

(***************************************************************************)
(* The token map of controllers/vendo_controller.py: a dict, so a sequence *)
(* of [user_id, token] in insertion order.                                 *)
(***************************************************************************)
HasToken(map, user_id) == \E i \in 1..Len(map) : map[i].user_id = user_id

store_customer_token(map, user_id, token) ==
    IF HasToken(map, user_id)
    THEN [i \in 1..Len(map) |->
             IF map[i].user_id = user_id
             THEN [user_id |-> user_id, token |-> token] ELSE map[i]]
    ELSE Append(map, [user_id |-> user_id, token |-> token])

RECURSIVE remove_customer_token(_, _)
remove_customer_token(map, user_id) ==
    IF map = <<>> THEN <<>>
    ELSE IF map[1].user_id = user_id
         THEN remove_customer_token(Tail(map), user_id)
         ELSE <<map[1]>> \o remove_customer_token(Tail(map), user_id)

get_active_customer_token(map) ==
    IF map = <<>> THEN Nil ELSE map[Len(map)].token


(***************************************************************************)
(* classify_trash_image and create_transaction.  A shot is what the label  *)
(* detector answers for one picture; Classification holds the verdict of   *)
(* _process_labels for each shot of the model.                             *)
(***************************************************************************)
Shots ==
    { [labels |-> <<[description |-> "Plastic bottle", score |-> 9000]>>],
      [labels |-> <<[description |-> "Aluminum can", score |-> 9000]>>],
      [labels |-> <<[description |-> "Glass", score |-> 8500]>>] }

Classification ==
    [s \in Shots |->
        LET all == AllLabelsInfo(s.labels)
            ctx == Context(all)
            v   == Verdict(ItemsOfKind(Outcomes(all, ctx), "accepted"), all, ctx)
        IN  [material_type |-> v.type, confidence |-> v.confidence]]

\* machine_id values a request may carry; machines holds the rows that exist
MachineIds == { 1, 2 }

create_transaction(data, txs, usrs, mchs) ==
    IF data.user_id \notin DOMAIN usrs THEN [error |-> "User not found"]
    ELSE IF data.machine_id \notin DOMAIN mchs THEN [error |-> "Machine not found"]
    ELSE LET user == usrs[data.user_id] IN
         [ id |-> Len(txs) + 1,
           transactions |-> Append(txs, data),
           users |-> [usrs EXCEPT ![data.user_id] =
               [ total_points |-> user.total_points + data.points_earned,
                 total_transactions |-> user.total_transactions + 1,
                 total_plastic |-> user.total_plastic
                     + (IF data.material_type = "PLASTIC" THEN 1 ELSE 0),
                 total_metal |-> user.total_metal
                     + (IF data.material_type = "NON_PLASTIC" THEN 1 ELSE 0) ]],
           machines |-> [mchs EXCEPT ![data.machine_id] = @ + 1] ]

PointsFor_Flat(material_type) == 1

PointsFor(material_type) == IF material_type = "PLASTIC" THEN 2 ELSE 1

\* vision is Nil when the Vision client is missing or its call raises;
\* the answer carries raised, the result dict and the tables as left behind.
\* A transaction's id is its row number; transaction_id 0 is None.
classify_trash_image(vision, user_id, machine_id, txs, usrs, mchs) ==
    IF vision = Nil
    THEN [raised |-> TRUE, transactions |-> txs, users |-> usrs, machines |-> mchs]
    ELSE IF vision.material_type = "REJECTED"
    THEN [raised |-> FALSE,
          result |-> [status |-> "rejected", material_type |-> "REJECTED",
                      confidence |-> vision.confidence, points_earned |-> 0,
                      transaction_id |-> 0],
          transactions |-> txs, users |-> usrs, machines |-> mchs]
    ELSE LET points == PointsFor(vision.material_type)
             made == create_transaction(
                 [user_id |-> user_id, machine_id |-> machine_id,
                  material_type |-> vision.material_type,
                  points_earned |-> points], txs, usrs, mchs) IN
         IF "error" \in DOMAIN made
         THEN [raised |-> TRUE, transactions |-> txs, users |-> usrs,
               machines |-> mchs]
         ELSE [raised |-> FALSE,
               result |-> [status |-> "success",
                           material_type |-> vision.material_type,
                           confidence |-> vision.confidence,
                           points_earned |-> points,
                           transaction_id |-> made.id],
               transactions |-> made.transactions, users |-> made.users,
               machines |-> made.machines]


(***************************************************************************)
(* The handlers of routes/vendo.py.  A handler is an async function that   *)
(* awaits nothing between its reads and its writes of the session, the     *)
(* token map and the history, and main.py runs one uvicorn process: the    *)
(* event loop runs each handler below as one step.  token is the bearer    *)
(* token of the request, whose sub is current_user.id; response keeps, with *)
(* the answer, the handler and user it answers.                            *)
(***************************************************************************)
prepare_insert_session(token) ==
    LET user_id == token.sub
        existing == get_active_session_for_user(redis_up, sessions, user_id)
        kept == IF existing # Nil
                THEN end_session(redis_up, sessions, user_id).sessions
                ELSE sessions
        session_created == create_session(redis_up, kept, user_id, token)
    IN  /\ sessions' = session_created.sessions
        /\ customer_tokens' = store_customer_token(customer_tokens, user_id, token)
        /\ response' = [handler |-> "prepare-insert", status_code |-> 200,
                        user_id |-> user_id, token |-> token,
                        status |-> "success",
                        session_active |-> session_created.ok]
        /\ requested' = [requested EXCEPT ![user_id] = 0]
        /\ granted' = IF session_created.ok
                      THEN [granted EXCEPT ![user_id] = 0] ELSE granted
        /\ UNCHANGED <<redis_up, history, transactions, users, machines, captures, appended>>

end_user_session(token) ==
    LET user_id == token.sub
        ended == end_session(redis_up, sessions, user_id)
    IN  /\ sessions' = ended.sessions
        /\ customer_tokens' = remove_customer_token(customer_tokens, user_id)
        /\ response' = [handler |-> "end-session", status_code |-> 200,
                        user_id |-> user_id,
                        status |-> IF ended.ok THEN "success" ELSE "not_found"]
        /\ requested' = [requested EXCEPT ![user_id] = -1]
        /\ granted' = IF ended.ok
                      THEN [granted EXCEPT ![user_id] = -1] ELSE granted
        /\ UNCHANGED <<redis_up, history, transactions, users, machines, captures, appended>>

clear_customer_token(token) ==
    /\ customer_tokens' = remove_customer_token(customer_tokens, token.sub)
    /\ response' = [handler |-> "clear-token", status_code |-> 200,
                    user_id |-> token.sub, status |-> "success"]
    /\ UNCHANGED <<redis_up, sessions, history, transactions, users, machines,
                   requested, granted, captures, appended>>

get_user_detection_history(token) ==
    /\ response' = [handler |-> "detection-history", status_code |-> 200,
                    user_id |-> token.sub,
                    history |-> get_detection_history(redis_up, history, token.sub)]
    /\ UNCHANGED <<redis_up, sessions, history, customer_tokens, transactions,
                   users, machines, requested, granted, captures, appended>>

\* the session gate of capture_and_classify
Gate(user_id) ==
    IF redis_up
    THEN is_session_active(redis_up, sessions, user_id)
    ELSE get_active_customer_token(customer_tokens) # Nil

Refused(handler, status_code) ==
    /\ response' = [handler |-> handler, status_code |-> status_code]
    /\ UNCHANGED <<redis_up, sessions, history, customer_tokens, transactions,
                   users, machines, requested, granted, captures, appended>>

\* the detection_data of capture_and_classify; the timestamp is the number
\* of the detection
DetectionData(result_, stamp) ==
    [material_type |-> result_.material_type,
     confidence |-> result_.confidence,
     points_earned |-> result_.points_earned,
     transaction_id |-> result_.transaction_id,
     status |-> result_.status,
     timestamp |-> stamp]

\* capture_and_classify using the session up: it ends it once the
\* classification is done
capture_and_classify_OneShot(token, picture, machine_id, vision_up) ==
    IF token = Nil THEN Refused("capture-and-classify", 403)
    ELSE IF ~Gate(token.sub) THEN Refused("capture-and-classify", 403)
    ELSE
    LET user_id == token.sub
        vision == IF picture = Nil \/ ~vision_up THEN Nil
                  ELSE Classification[picture]
        done == classify_trash_image(vision, user_id, machine_id,
                                     transactions, users, machines)
        detection_data == DetectionData(done.result, captures + 1)
    IN  /\ captures' = captures + 1
        /\ customer_tokens' = store_customer_token(customer_tokens, user_id, token)
        /\ transactions' = done.transactions
        /\ users' = done.users
        /\ machines' = done.machines
        /\ sessions' = end_session(redis_up, sessions, user_id).sessions
        /\ IF done.raised
           THEN /\ UNCHANGED <<history, appended>>
                /\ response' = [handler |-> "capture-and-classify",
                                status_code |-> 500, user_id |-> user_id]
           ELSE /\ history' = add_detection_to_history(
                                  redis_up, history, user_id, detection_data).history
                /\ appended' = IF redis_up
                               THEN [appended EXCEPT ![user_id] =
                                        Append(@, detection_data)]
                               ELSE appended
                /\ response' = [handler |-> "capture-and-classify",
                                status_code |-> 200, user_id |-> user_id,
                                result |-> done.result]
        /\ UNCHANGED <<redis_up, requested, granted>>

\* picture is the image of the request or, for a request without one, the
\* webcam's frame, Nil when the webcam gives none; vision_up is whether the
\* Vision API answers.  A request without a bearer token is refused by
\* HTTPBearer before the handler runs.
capture_and_classify(token, picture, machine_id, vision_up) ==
    IF token = Nil THEN Refused("capture-and-classify", 403)
    ELSE IF ~Gate(token.sub) THEN Refused("capture-and-classify", 403)
    ELSE
    LET user_id == token.sub
        vision == IF picture = Nil \/ ~vision_up THEN Nil
                  ELSE Classification[picture]
        done == classify_trash_image(vision, user_id, machine_id,
                                     transactions, users, machines)
        detection_data == DetectionData(done.result, captures + 1)
    IN  /\ captures' = captures + 1
        /\ customer_tokens' = store_customer_token(customer_tokens, user_id, token)
        /\ transactions' = done.transactions
        /\ users' = done.users
        /\ machines' = done.machines
        /\ IF done.raised
           THEN /\ UNCHANGED <<history, appended>>
                /\ response' = [handler |-> "capture-and-classify",
                                status_code |-> 500, user_id |-> user_id]
           ELSE /\ history' = add_detection_to_history(
                                  redis_up, history, user_id, detection_data).history
                /\ appended' = IF redis_up
                               THEN [appended EXCEPT ![user_id] =
                                        Append(@, detection_data)]
                               ELSE appended
                /\ response' = [handler |-> "capture-and-classify",
                                status_code |-> 200, user_id |-> user_id,
                                result |-> done.result]
        /\ UNCHANGED <<redis_up, sessions, requested, granted>>

\* /session-status and /active-token, which the bridge polls
get_session_status ==
    LET token == get_active_customer_token(customer_tokens) IN
    IF token = Nil THEN FALSE
    ELSE LET has_redis_session ==
                 redis_up /\ \E u \in Users : Live(sessions[u])
         IN  token # Nil \/ has_redis_session

get_token_for_bridge == get_active_customer_token(customer_tokens)


(***************************************************************************)
(* The bridge of arduino_bridge.py: one READY line is handled by up to     *)
(* three HTTP requests, and the server may serve other requests between    *)
(* them.  reachable is whether the request gets its answer in time.        *)
(***************************************************************************)
TOKEN_CACHE_TTL == 300

\* the customer asked for an insertion less than SESSION_TTL ago and
\* did not end it
InsertionOpen(user_id) ==
    requested[user_id] >= 0 /\ requested[user_id] < SESSION_TTL

Signals == { "PLASTIC", "CAN", "REJECTED", "ERROR", "NO_SESSION" }

check_session_status(reachable) == reachable /\ get_session_status

\* the signal for the server's reply to /capture-and-classify
classify_trash_ErrorAsRejected(reply) ==
    IF reply.status_code = 200
    THEN IF reply.result.material_type = "PLASTIC" THEN "PLASTIC"
         ELSE IF reply.result.material_type = "NON_PLASTIC" THEN "CAN"
         ELSE "REJECTED"
    ELSE "REJECTED"

classify_trash(reply) ==
    IF reply.status_code = 200
    THEN IF reply.result.material_type = "PLASTIC" THEN "PLASTIC"
         ELSE IF reply.result.material_type = "NON_PLASTIC" THEN "CAN"
         ELSE IF reply.result.material_type = "REJECTED" THEN "REJECTED"
         ELSE "REJECTED"
    ELSE "ERROR"

Write_Twice(line) ==
    /\ serial_out' = serial_out \o <<line, line>>
    /\ bridge_pc' = "readline"

Write(line) ==
    /\ serial_out' = Append(serial_out, line)
    /\ bridge_pc' = "readline"

ReadReady ==
    /\ bridge_pc = "readline"
    /\ ready < MaxReady
    /\ ready' = ready + 1
    /\ bridge_pc' = "check_session_status"
    /\ unattended' = \A u \in Users : ~InsertionOpen(u)
    /\ UNCHANGED <<vars, loop_vars, logins, server_vars, cached_token, cache_age, jwt_token,
                   serial_out>>

CheckSessionStatus ==
    /\ bridge_pc = "check_session_status"
    /\ \E reachable \in BOOLEAN :
          /\ response' = IF reachable
                         THEN [handler |-> "session-status", status_code |-> 200,
                               has_session |-> get_session_status]
                         ELSE Nil
          /\ IF check_session_status(reachable)
             THEN /\ bridge_pc' = "capture_webcam_image"
                  /\ UNCHANGED serial_out
             ELSE Write("NO_SESSION")
    /\ UNCHANGED <<vars, loop_vars, logins, unattended, redis_up, sessions, history, customer_tokens,
                   transactions, users, machines, requested, granted, captures, appended,
                   cached_token, cache_age, jwt_token, ready>>

\* frame is whether the webcam gave a picture
Capture(frame) ==
    /\ bridge_pc = "capture_webcam_image"
    /\ IF frame
       THEN /\ bridge_pc' = "get_active_token"
            /\ UNCHANGED serial_out
       ELSE Write("ERROR")
    /\ UNCHANGED <<vars, loop_vars, logins, unattended, server_vars,
                   cached_token, cache_age, jwt_token, ready>>

CaptureWebcamImage == \E frame \in BOOLEAN : Capture(frame)

GetActiveToken ==
    /\ bridge_pc = "get_active_token"
    /\ IF cached_token # Nil /\ cache_age < TOKEN_CACHE_TTL
       THEN /\ jwt_token' = cached_token
            /\ UNCHANGED <<cached_token, cache_age, response>>
       ELSE \E reachable \in BOOLEAN :
            LET token == IF reachable THEN get_token_for_bridge ELSE Nil IN
               /\ cached_token' = token
               /\ cache_age' = IF token # Nil THEN 0 ELSE cache_age
               /\ jwt_token' = token
               /\ response' = IF reachable
                              THEN [handler |-> "active-token",
                                    status_code |-> 200, token |-> token]
                              ELSE Nil
    /\ bridge_pc' = "classify_trash"
    /\ UNCHANGED <<vars, loop_vars, logins, unattended, redis_up, sessions, history, customer_tokens,
                   transactions, users, machines, requested, granted, captures, appended,
                   ready, serial_out>>

\* the POST of classify_trash: refused is a connection error, timeout a
\* request the server still serves after the bridge stopped waiting
Post(net, picture, vision_up) ==
    /\ bridge_pc = "classify_trash"
    /\ captures < MaxCaptures
    /\ IF net = "refused"
       THEN /\ response' = Nil
            /\ UNCHANGED <<redis_up, sessions, history, customer_tokens,
                           transactions, users, machines, requested, granted,
                           captures, appended>>
            /\ Write("ERROR")
       ELSE /\ capture_and_classify(jwt_token, picture, 1, vision_up)
            /\ Write(IF net = "timeout" THEN "ERROR"
                     ELSE classify_trash(response'))
    /\ jwt_token' = Nil
    /\ UNCHANGED <<vars, loop_vars, logins, unattended, cached_token,
                   cache_age, ready>>

ClassifyTrash ==
    \E net \in {"answered", "timeout", "refused"}, picture \in Shots,
       vision_up \in BOOLEAN : Post(net, picture, vision_up)

(***************************************************************************)
(* The customers' requests, the clock and Redis.                           *)
(***************************************************************************)
\* the JWT a customer's browser holds
Jwt(user_id) == [sub |-> user_id, login |-> logins[user_id]]

Login ==
    /\ \E user_id \in Users :
          /\ logins[user_id] < MaxLogins
          /\ logins' = [logins EXCEPT ![user_id] = @ + 1]
    /\ response' = Nil
    /\ UNCHANGED <<vars, loop_vars, unattended, redis_up, sessions, history,
                   customer_tokens, transactions, users, machines, requested,
                   granted, captures, appended, bridge_vars>>

PrepareInsert ==
    /\ \E user_id \in Users : prepare_insert_session(Jwt(user_id))
    /\ unattended' = FALSE
    /\ UNCHANGED <<vars, loop_vars, logins, bridge_vars>>

EndSession ==
    /\ \E user_id \in Users : end_user_session(Jwt(user_id))
    /\ UNCHANGED <<vars, loop_vars, logins, unattended, bridge_vars>>

ClearToken ==
    /\ \E user_id \in Users : clear_customer_token(Jwt(user_id))
    /\ UNCHANGED <<vars, loop_vars, logins, unattended, bridge_vars>>

Request(user_id, picture, machine_id, vision_up) ==
    /\ captures < MaxCaptures
    /\ capture_and_classify(Jwt(user_id), picture, machine_id, vision_up)
    /\ UNCHANGED <<vars, loop_vars, logins, unattended, bridge_vars>>

CaptureAndClassify ==
    \E user_id \in Users, picture \in Shots \cup {Nil},
       machine_id \in MachineIds, vision_up \in BOOLEAN :
       Request(user_id, picture, machine_id, vision_up)

Aged(age, limit) == IF age < 0 THEN age ELSE Min(limit, age + TickSeconds)

Tick ==
    /\ sessions' = [u \in Users |->
          IF sessions[u] = Nil THEN Nil
          ELSE [sessions[u] EXCEPT !.ttl = Max(0, @ - TickSeconds)]]
    /\ requested' = [u \in Users |-> Aged(requested[u], SESSION_TTL)]
    /\ granted' = [u \in Users |-> Aged(granted[u], SESSION_TTL)]
    /\ cache_age' = Aged(cache_age, TOKEN_CACHE_TTL)
    /\ response' = Nil
    /\ UNCHANGED <<vars, loop_vars, logins, unattended, redis_up, history, customer_tokens, transactions,
                   users, machines, captures, appended, bridge_pc, cached_token,
                   jwt_token, ready, serial_out>>

RedisFails ==
    /\ redis_up
    /\ redis_up' = FALSE
    /\ response' = Nil
    /\ UNCHANGED <<vars, loop_vars, logins, unattended, sessions, history, customer_tokens, transactions,
                   users, machines, requested, granted, captures, appended, bridge_vars>>

RedisRecovers ==
    /\ ~redis_up
    /\ redis_up' = TRUE
    /\ response' = Nil
    /\ UNCHANGED <<vars, loop_vars, logins, unattended, sessions, history, customer_tokens, transactions,
                   users, machines, requested, granted, captures, appended, bridge_vars>>

all_vars == <<vars, server_vars, bridge_vars, loop_vars, logins, unattended>>

SystemInit ==
    /\ labels = <<>>
    /\ result = None
    /\ context = Context(<<>>)
    /\ outcomes = <<>>
    /\ accepted_items = <<>>
    /\ rejected_items = <<>>
    /\ unknown_items = <<>>
    /\ ServerStart
    /\ BridgeStart

(***************************************************************************)
(* The session gate alone: the handlers that create and end sessions, the  *)
(* clock and Redis.                                                        *)
(***************************************************************************)
SessionNext ==
    \/ Login
    \/ PrepareInsert
    \/ EndSession
    \/ ClearToken
    \/ Tick
    \/ RedisFails
    \/ RedisRecovers

SessionSpec == SystemInit /\ [][SessionNext]_all_vars

(***************************************************************************)
(* The history buffer alone: add_detection_to_history called with one      *)
(* detection after another, and the handler that reads the history.        *)
(***************************************************************************)
MaxAppends == 6

Stored == Len(appended[1]) + Len(appended[2])

\* results of classify_trash_image to append
Results ==
    { [status |-> "rejected", material_type |-> "REJECTED", confidence |-> 0,
       points_earned |-> 0, transaction_id |-> 0],
      [status |-> "success", material_type |-> "PLASTIC", confidence |-> 9000,
       points_earned |-> 2, transaction_id |-> 1] }

AddDetectionToHistory ==
    /\ Stored < MaxAppends
    /\ \E user_id \in Users, result_ \in Results :
          LET detection_data == DetectionData(result_, Stored + 1)
              added == add_detection_to_history(redis_up, history, user_id,
                                                detection_data)
          IN  /\ history' = added.history
              /\ appended' = IF added.ok
                             THEN [appended EXCEPT ![user_id] =
                                      Append(@, detection_data)]
                             ELSE appended
              /\ response' = [handler |-> "add_detection_to_history",
                              user_id |-> user_id, ok |-> added.ok,
                              detection_data |-> detection_data]
    /\ UNCHANGED <<vars, loop_vars, logins, unattended, redis_up, sessions, customer_tokens,
                   transactions, users, machines, requested, granted, captures,
                   bridge_vars>>

GetDetectionHistory ==
    /\ \E user_id \in Users : get_user_detection_history(Jwt(user_id))
    /\ UNCHANGED <<vars, loop_vars, logins, unattended, bridge_vars>>

HistoryNext ==
    \/ AddDetectionToHistory
    \/ GetDetectionHistory
    \/ RedisFails
    \/ RedisRecovers

HistorySpec == SystemInit /\ [][HistoryNext]_all_vars

(***************************************************************************)
(* The session gate in front of the classifier and the ledger.             *)
(***************************************************************************)
GateNext ==
    \/ PrepareInsert
    \/ EndSession
    \/ CaptureAndClassify
    \/ Tick
    \/ RedisFails
    \/ RedisRecovers

GateSpec == SystemInit /\ [][GateNext]_all_vars

(***************************************************************************)
(* Insertions under one session: several capture-and-classify requests of  *)
(* the frontend between /prepare-insert and /end-session, for machine 1;   *)
(* Redis is up, or down, from the start.                                   *)
(***************************************************************************)
MaxInsertions == 2

Insert ==
    /\ captures < MaxInsertions
    /\ \E user_id \in Users, picture \in Shots \cup {Nil}, vision_up \in BOOLEAN :
          capture_and_classify(Jwt(user_id), picture, 1, vision_up)
    /\ UNCHANGED <<vars, loop_vars, logins, unattended, bridge_vars>>

InsertionNext ==
    \/ PrepareInsert
    \/ EndSession
    \/ Insert
    \/ Tick

InsertionSpec == SystemInit /\ [][InsertionNext]_all_vars

(***************************************************************************)
(* The bridge with the server it polls; Redis is up, or down, from the     *)
(* start.                                                                  *)
(***************************************************************************)
BridgeNext ==
    \/ PrepareInsert
    \/ EndSession
    \/ ReadReady
    \/ CheckSessionStatus
    \/ CaptureWebcamImage
    \/ GetActiveToken
    \/ ClassifyTrash
    \/ Tick

BridgeSpec == SystemInit /\ [][BridgeNext]_all_vars

(***************************************************************************)
(* Requests in flight.  uvicorn accepts connections while a handler runs,  *)
(* so several requests can be waiting; the event loop then runs their      *)
(* handlers one at a time, in any order.  A request notes how many had     *)
(* been served when it arrived, and, once served, its status code.         *)
(***************************************************************************)
MaxRequests == 3

Accepted == Len(served) + Cardinality(inflight)

AcceptRequest ==
    /\ Accepted < MaxRequests
    /\ \E handler \in {"prepare-insert", "capture-and-classify"},
          user_id \in Users, picture \in Shots :
          inflight' = inflight \cup
              { [id |-> Accepted + 1, handler |-> handler, user_id |-> user_id,
                 picture |-> picture, arrived |-> Len(served)] }
    /\ response' = Nil
    /\ UNCHANGED <<vars, served, logins, unattended, redis_up, sessions,
                   history, customer_tokens, transactions, users, machines,
                   requested, granted, captures, appended, bridge_vars>>

Served(request) ==
    /\ inflight' = inflight \ {request}
    /\ served' = Append(served, [id |-> request.id, handler |-> request.handler,
                                 user_id |-> request.user_id,
                                 arrived |-> request.arrived,
                                 status_code |-> response'.status_code])
    /\ UNCHANGED <<vars, logins, unattended, bridge_vars>>

ServePrepareInsert ==
    \E request \in inflight :
        /\ request.handler = "prepare-insert"
        /\ prepare_insert_session(Jwt(request.user_id))
        /\ Served(request)

ServeCaptureAndClassify ==
    \E request \in inflight :
        /\ request.handler = "capture-and-classify"
        /\ capture_and_classify(Jwt(request.user_id), request.picture, 1, TRUE)
        /\ Served(request)

ConcurrentNext ==
    \/ AcceptRequest
    \/ ServePrepareInsert
    \/ ServeCaptureAndClassify

ConcurrentSpec == SystemInit /\ [][ConcurrentNext]_all_vars

(***************************************************************************)
(* Properties of the session gate.                                         *)
(***************************************************************************)
\* the last step was handler's answer
Answered(handler) ==
    "handler" \in DOMAIN response /\ response.handler = handler

\* C11, as the specification states it: after /prepare-insert has answered
\* for user u with token t, a live session of u exists and stores t.
C11_AsClaimed ==
    Answered("prepare-insert") =>
        /\ Live(sessions[response.user_id])
        /\ sessions[response.user_id].token = response.token

\* C11: after /prepare-insert has answered for user u with token t while
\* Redis is available, the one session record of u is live, stores t and has
\* the full SESSION_TTL, whatever was there before, and the answer says
\* session_active; while Redis is unavailable the answer is still a success,
\* with session_active false, and only the token map holds t.
C11_PrepareYieldsSession ==
    Answered("prepare-insert") =>
        LET u == response.user_id IN
        /\ response.status = "success"
        /\ response.session_active = redis_up
        /\ redis_up =>
              sessions[u] = [token |-> response.token, user_id |-> u,
                             ttl |-> SESSION_TTL]
        /\ \E i \in 1..Len(customer_tokens) :
              customer_tokens[i] = [user_id |-> u, token |-> response.token]

\* a second prepare, with the token of a later login, has replaced the
\* session of the first
C11_Witness ==
    /\ Answered("prepare-insert")
    /\ redis_up
    /\ response.token.login = 2
    /\ sessions[response.user_id].token = response.token
    /\ sessions[response.user_id].ttl = SESSION_TTL

\* C12, as the specification states it: is_session_active(u) is true exactly
\* when u asked for an insertion less than SESSION_TTL ago and has not ended
\* it since.
C12_AsClaimed ==
    \A u \in Users :
        is_session_active(redis_up, sessions, u) <=> InsertionOpen(u)

\* C12: is_session_active(u) is true, and get_session(u) gives the record,
\* exactly when Redis is available and the last /prepare-insert of u that
\* created a session is less than SESSION_TTL old and end_session has not
\* deleted the record since; an expired record is absent for both readers
\* though nothing removed it.
C12_ActiveIffUnexpired ==
    \A u \in Users :
        LET young == granted[u] >= 0 /\ granted[u] < SESSION_TTL IN
        /\ is_session_active(redis_up, sessions, u) <=> (redis_up /\ young)
        /\ (get_session(redis_up, sessions, u) # Nil) <=> (redis_up /\ young)
        /\ get_session(redis_up, sessions, u) # Nil =>
              get_session(redis_up, sessions, u) = sessions[u]

\* the TTL of a session has run out: its record was never removed, and the
\* readers treat it as absent
C12_Witness ==
    \E u \in Users :
        /\ redis_up
        /\ granted[u] = SESSION_TTL
        /\ sessions[u] # Nil
        /\ ~is_session_active(redis_up, sessions, u)
        /\ get_session(redis_up, sessions, u) = Nil

\* C13, as the specification states it: /end-session answers success exactly
\* when the user had an open insertion at the call, and whoever has none
\* (never asked, or ended) has no active session.
C13_AsClaimed ==
    /\ [](\A u \in Users :
            requested[u] = -1 => ~is_session_active(redis_up, sessions, u))
    /\ [][Answered("end-session")' =>
            (response'.status = "success" <=> InsertionOpen(response'.user_id))
         ]_all_vars

\* C13: /end-session answers success exactly when Redis is available and a
\* live session record of the user exists at the call; with Redis available
\* it leaves no record, so that no session is active until a later
\* /prepare-insert creates one and a second call answers not_found; with
\* Redis unavailable it answers not_found and leaves the record alone.  In
\* both cases the user's token is dropped from the token map.
C13_EndDeletes ==
    /\ [](\A u \in Users :
            granted[u] = -1 => ~is_session_active(redis_up, sessions, u))
    /\ [][Answered("end-session")' =>
            LET u == response'.user_id IN
            /\ response'.status = "success" <=> (redis_up /\ Live(sessions[u]))
            /\ redis_up => sessions'[u] = Nil
            /\ ~redis_up => sessions' = sessions
            /\ ~HasToken(customer_tokens', u)
         ]_all_vars

\* an end that deleted a live session
C13_Witness ==
    /\ Answered("end-session")
    /\ response.status = "success"
    /\ sessions[response.user_id] = Nil
    /\ granted[response.user_id] = -1
    /\ ~is_session_active(redis_up, sessions, response.user_id)


(***************************************************************************)
(* Properties of the history buffer.                                       *)
(***************************************************************************)
\* the last n entries of a log, newest first
NewestFirst(log, n) ==
    [i \in 1..Min(n, Len(log)) |-> log[Len(log) + 1 - i]]

\* C14, as the specification states it: an entry that was appended is the
\* newest of the history, and a read gives the history.
C14_AsClaimed ==
    /\ Answered("add_detection_to_history") =>
          /\ history[response.user_id] # <<>>
          /\ history[response.user_id][1] = response.detection_data
    /\ Answered("detection-history") =>
          response.history = history[response.user_id]

\* C14: the history of a user holds at most MAX_DETECTION_HISTORY entries:
\* the last ones, newest first, of those appended while Redis was available.
\* An append made while Redis is unavailable returns False and stores
\* nothing; a read gives the stored list while Redis is available, the empty
\* list while it is not or when nothing is stored.
C14_HistoryIsNewestFive ==
    /\ \A u \in Users :
          /\ Len(history[u]) <= MAX_DETECTION_HISTORY
          /\ history[u] = NewestFirst(appended[u], MAX_DETECTION_HISTORY)
    /\ Answered("add_detection_to_history") =>
          /\ response.ok = redis_up
          /\ redis_up =>
                history[response.user_id][1] = response.detection_data
    /\ Answered("detection-history") =>
          response.history =
              IF redis_up THEN history[response.user_id] ELSE <<>>

\* a read after the sixth append of one user: the oldest entry is gone
C14_Witness ==
    /\ Answered("detection-history")
    /\ Len(appended[response.user_id]) > MAX_DETECTION_HISTORY
    /\ Len(response.history) = MAX_DETECTION_HISTORY
    /\ response.history[1].timestamp > response.history[2].timestamp
    /\ \A i \in 1..Len(response.history) :
          response.history[i] # appended[response.user_id][1]


(***************************************************************************)
(* Properties of capture-and-classify.                                     *)
(***************************************************************************)
\* C15, as the specification states it: when /capture-and-classify has run
\* the classifier for user u (it answered 200 with a verdict, or 500 after
\* the gate), u had an open insertion: asked for less than SESSION_TTL ago
\* and not ended.
C15_AsClaimed ==
    (Answered("capture-and-classify") /\ response.status_code # 403) =>
        InsertionOpen(response.user_id)


(***************************************************************************)
(* Properties of the bridge.                                               *)
(***************************************************************************)
\* the bridge has answered the READY it read last
Written == bridge_pc = "readline" /\ ready > 0 /\ Len(serial_out) = ready

\* C16, as the specification states it: a READY read while no customer had
\* an open insertion (none asked for one, or it was ended, or SESSION_TTL
\* has passed), and handled without one asking since, is answered
\* NO_SESSION.
C16_AsClaimed ==
    (Written /\ unattended) => serial_out[ready] = "NO_SESSION"

\* C17: a POST of the bridge that finds the Vision API unavailable is
\* answered 500 (or 403 by the session gate) and a webcam that gives no
\* picture stops the bridge before the POST; in both cases the bridge
\* writes ERROR, and no transaction, counter or history entry changes.
C17_UnavailableIsError ==
    [][ /\ \A net \in {"answered", "timeout"}, picture \in Shots :
            Post(net, picture, FALSE) =>
                /\ response'.status_code \in {403, 500}
                /\ serial_out' = Append(serial_out, "ERROR")
                /\ UNCHANGED <<transactions, users, machines, history>>
        /\ Capture(FALSE) =>
                /\ serial_out' = Append(serial_out, "ERROR")
                /\ UNCHANGED <<response, transactions, users, machines, history>>
      ]_all_vars

\* the Vision API failed behind an open session gate: 500, ERROR on the
\* serial line, nothing stored
C17_Witness ==
    /\ Written
    /\ Answered("capture-and-classify")
    /\ response.status_code = 500
    /\ serial_out[ready] = "ERROR"
    /\ transactions = <<>>
    /\ \A u \in Users : history[u] = <<>>

\* the signal the bridge owes the Arduino for a reply of the server
Owed(reply) ==
    IF reply.status_code # 200 THEN "ERROR"
    ELSE CASE reply.result.material_type = "PLASTIC" -> "PLASTIC"
           [] reply.result.material_type = "NON_PLASTIC" -> "CAN"
           [] reply.result.material_type = "REJECTED" -> "REJECTED"

\* C18: the bridge reads a line only after it has written one line for every
\* READY before; whatever it has written is one of the five signals; a step
\* that ends the handling of a READY writes exactly one line: NO_SESSION
\* from the session check, ERROR from a failed capture, a refused or
\* timed-out POST and every answer but 200, and for a 200 PLASTIC for
\* PLASTIC, CAN for NON_PLASTIC, REJECTED for REJECTED.
C18_OneSignalPerReady ==
    /\ [](/\ \A i \in 1..Len(serial_out) : serial_out[i] \in Signals
          /\ Len(serial_out) = IF bridge_pc = "readline" THEN ready ELSE ready - 1)
    /\ [][ /\ ready' # ready => Len(serial_out) = ready
           /\ (bridge_pc # "readline" /\ bridge_pc' = "readline") =>
                 \E line \in Signals : serial_out' = Append(serial_out, line)
           /\ \A picture \in Shots, vision_up \in BOOLEAN :
                 /\ Post("answered", picture, vision_up) =>
                       serial_out' = Append(serial_out, Owed(response'))
                 /\ Post("timeout", picture, vision_up) =>
                       serial_out' = Append(serial_out, "ERROR")
                 /\ Post("refused", picture, vision_up) =>
                       serial_out' = Append(serial_out, "ERROR")
         ]_all_vars

\* two READY lines answered, the second by a classification
C18_Witness ==
    /\ Written
    /\ ready = 2
    /\ serial_out[1] = "NO_SESSION"
    /\ serial_out[2] \in {"PLASTIC", "CAN", "REJECTED"}
    /\ Answered("capture-and-classify")
    /\ response.status_code = 200


(***************************************************************************)
(* Properties of the ledger.                                               *)
(***************************************************************************)
\* the rows of the ledger that belong to a user
RowsOf(u) == { i \in 1..Len(transactions) : transactions[i].user_id = u }

RowsOfType(u, material_type) ==
    { i \in RowsOf(u) : transactions[i].material_type = material_type }

RECURSIVE PointsOf(_)
PointsOf(rows) ==
    IF rows = {} THEN 0
    ELSE LET i == CHOOSE k \in rows : TRUE IN
         transactions[i].points_earned + PointsOf(rows \ {i})

\* C19: a request that passes the gate with a picture, a working Vision API
\* and a machine that exists is answered with the classifier's verdict; a
\* REJECTED answer carries 0 points and no transaction_id and leaves the
\* ledger and the counters alone; a PLASTIC or NON_PLASTIC answer carries 2
\* or 1 points and the id of the one row added for the user, whose
\* total_transactions rose by 1, total_points by the points, and
\* total_plastic (PLASTIC) or total_metal (NON_PLASTIC) by 1; every other
\* answer adds nothing.  So each user's counters are the sums over the
\* user's rows.
C19_LedgerAndPoints ==
    /\ [](\A u \in Users :
            /\ users[u].total_transactions = Cardinality(RowsOf(u))
            /\ users[u].total_points = PointsOf(RowsOf(u))
            /\ users[u].total_plastic = Cardinality(RowsOfType(u, "PLASTIC"))
            /\ users[u].total_metal = Cardinality(RowsOfType(u, "NON_PLASTIC")))
    /\ [][ /\ \A u \in Users, picture \in Shots, m \in DOMAIN machines :
               (Request(u, picture, m, TRUE) /\ response'.status_code # 403) =>
                   /\ response'.status_code = 200
                   /\ response'.result.material_type =
                          Classification[picture].material_type
           /\ Answered("capture-and-classify")' =>
               IF response'.status_code # 200
               THEN UNCHANGED <<transactions, users, machines>>
               ELSE
               LET res == response'.result
                   u == response'.user_id IN
               IF res.material_type = "REJECTED"
               THEN /\ res.status = "rejected"
                    /\ res.points_earned = 0
                    /\ res.transaction_id = 0
                    /\ UNCHANGED <<transactions, users, machines>>
               ELSE /\ res.status = "success"
                    /\ res.material_type \in {"PLASTIC", "NON_PLASTIC"}
                    /\ res.points_earned =
                           IF res.material_type = "PLASTIC" THEN 2 ELSE 1
                    /\ Len(transactions') = Len(transactions) + 1
                    /\ SubSeq(transactions', 1, Len(transactions)) = transactions
                    /\ res.transaction_id = Len(transactions')
                    /\ transactions'[Len(transactions')].user_id = u
                    /\ transactions'[Len(transactions')].material_type =
                           res.material_type
                    /\ transactions'[Len(transactions')].points_earned =
                           res.points_earned
                    /\ users'[u].total_transactions =
                           users[u].total_transactions + 1
                    /\ users'[u].total_points =
                           users[u].total_points + res.points_earned
                    /\ users'[u].total_plastic + users'[u].total_metal =
                           users[u].total_plastic + users[u].total_metal + 1
                    /\ \A v \in Users \ {u} : users'[v] = users[v]
         ]_all_vars

\* a can was classified: one row, one point, one more metal item
C19_Witness ==
    /\ Answered("capture-and-classify")
    /\ response.status_code = 200
    /\ response.result.material_type = "NON_PLASTIC"
    /\ response.result.points_earned = 1
    /\ response.result.transaction_id = Len(transactions)
    /\ users[response.user_id].total_metal = 1
    /\ users[response.user_id].total_points = 1


(***************************************************************************)
(* Properties of requests in flight.                                       *)
(***************************************************************************)
\* the places in served of a user's requests to a handler
ServedBy(u, handler) ==
    { i \in 1..Len(served) :
        served[i].user_id = u /\ served[i].handler = handler }

Words(i) == LabelText[labels[i].description].words

\* step 1 and the test of step 2 for every description, computed once from
\* the phrase list: hits are the accepted phrases the label matches, by word
\* subset or by substring; the loop stops at the first of them
StepOne ==
    [d \in Vocabulary |->
        LET t    == LabelText[d]
            hits == { k \in 1..Len(ACCEPTED_LABELS) :
                        \/ Split(ACCEPTED_LABELS[k]) \subseteq t.words
                        \/ Contains(ACCEPTED_LABELS[k], t.name_lower) }
            first == IF hits = {} THEN 0
                     ELSE CHOOSE k \in hits : \A h \in hits : k <= h
        IN  [ matched    |-> hits # {},
              by_substring |-> \E k \in hits :
                                  Contains(ACCEPTED_LABELS[k], t.name_lower),
              near_exact |-> /\ first # 0
                             /\ \/ Contains(ACCEPTED_LABELS[first], t.name_lower)
                                \/ Contains(t.name_lower, ACCEPTED_LABELS[first]),
              fails      |->
                  \/ /\ "bottle" \in t.words
                     /\ t.words \cap {"plastic", "water", "soda", "drink"} = {}
                  \/ /\ "can" \in t.words
                     /\ t.words \cap {"aluminum", "tin", "steel", "soda",
                                       "beer", "drink"} = {} ]]

\* C21, as the specification states it: a label that matched an accepted
\* phrase, by word subset or by substring, and has 'bottle' without plastic,
\* water, soda, drink, or 'can' without aluminum, tin, steel, soda, beer,
\* drink, is not accepted.
C21_AsClaimed ==
    Done => \A i \in 1..Len(labels) :
        (StepOne[labels[i].description].matched
            /\ StepOne[labels[i].description].fails)
                => outcomes[i].kind # "accepted"

\* C21: a matched label that fails the test of step 2 is demoted, and then
\* rejected, exactly when the phrase it matched first does not occur in its
\* text (a match by word subset only); when the phrase occurs in the text
\* the test is skipped and the label stays accepted.
C21_Revalidated ==
    Done => \A i \in 1..Len(labels) :
        LET m == StepOne[labels[i].description] IN
        (m.matched /\ m.fails /\ Words(i) \cap {"glass", "jar"} = {}) =>
            outcomes[i].kind = IF m.near_exact THEN "accepted" ELSE "rejected"

\* a label matched by word subset only was demoted for 'bottle' and one for
\* 'can', and a label that holds the phrase as a substring stayed accepted
C21_Witness ==
    /\ Done
    /\ \E i, j, k \in 1..Len(labels) :
          /\ labels[i].description = "Beer bottle can"
          /\ outcomes[i].kind = "rejected"
          /\ labels[j].description = "Bottle can plastic"
          /\ outcomes[j].kind = "rejected"
          /\ labels[k].description = "Bottled water can"
          /\ outcomes[k].kind = "accepted"
          /\ StepOne[labels[k].description].by_substring
          /\ StepOne[labels[k].description].fails

\* some label of the input has one of these words
SomeLabelHas(words) == \E j \in 1..Len(labels) : Words(j) \cap words # {}

HasGlassWord(i) == Words(i) \cap {"glass", "jar"} # {}

\* C23, as the specification states it: a label with the word 'glass' or
\* 'jar' keeps its accepted outcome when it is an exact or near-exact match
\* of an accepted phrase, and is otherwise rejected unless the set has both
\* transparency and bottle context.
C23_AsClaimed ==
    Done => \A i \in 1..Len(labels) : HasGlassWord(i) =>
        IF StepOne[labels[i].description].near_exact
        THEN outcomes[i].kind = "accepted"
        ELSE (~(SomeLabelHas({"transparency", "transparent"})
                  /\ SomeLabelHas({"bottle", "water", "soda", "drink"})))
                => outcomes[i].kind = "rejected"

RemoveAt(ls, i) == SubSeq(ls, 1, i - 1) \o SubSeq(ls, i + 1, Len(ls))

\* the labels with those at i and i + 1 exchanged
Swap(ls, i) ==
    [k \in 1..Len(ls) |-> IF k = i THEN ls[i + 1] ELSE IF k = i + 1 THEN ls[i] ELSE ls[k]]

\* the words the context clues and the promotion look for
ContextWords ==
    { "bottle", "water", "soda", "drink", "can", "aluminum", "tin", "steel",
      "plastic", "glass", "jar", "transparency", "transparent", "silver",
      "metallic" }

\* every label has one outcome and is in one of the three lists
OneOutcomeEach ==
    /\ Len(outcomes) = Len(labels)
    /\ \A i \in 1..Len(outcomes) :
          outcomes[i].kind \in {"accepted", "rejected", "unknown"}
    /\ Len(accepted_items) + Len(rejected_items) + Len(unknown_items) = Len(labels)

\* C24, as the specification states it: every label has exactly one outcome,
\* and the label set without a label whose outcome is unknown has the same
\* verdict, material and confidence.
C24_AsClaimed ==
    Done =>
        /\ OneOutcomeEach
        /\ \A i \in 1..Len(labels) : outcomes[i].kind = "unknown" =>
              Classify(RemoveAt(labels, i)) = result

\* C24: every label has exactly one outcome.  An unknown label counts for
\* the context flags, for the promotion of 'plastic' and for the confidence
\* of the fallback rules; the label set without an unknown label that has
\* none of the context words has the same material, and the same confidence
\* unless the verdict is a fallback rule's and the label alone had the
\* highest score.
C24_UnknownFrame ==
    Done =>
        /\ OneOutcomeEach
        /\ \A i \in 1..Len(labels) :
              (outcomes[i].kind = "unknown" /\ Words(i) \cap ContextWords = {}) =>
                  LET without == Classify(RemoveAt(labels, i)) IN
                  /\ without.type = result.type
                  /\ (\/ accepted_items # <<>>
                      \/ \E j \in 1..Len(labels) :
                            j # i /\ labels[j].score >= labels[i].score)
                        => without.confidence = result.confidence

\* an unknown label without context words has the highest score: without it
\* the material is the same and the fallback confidence is lower
C24_Witness ==
    /\ Done
    /\ labels = << [description |-> "Cylinder", score |-> 9000],
                    [description |-> "Glass", score |-> 8500],
                    [description |-> "Transparency", score |-> 8500] >>
    /\ outcomes[1].kind = "unknown" /\ outcomes[3].kind = "unknown"
    /\ result = [type |-> "PLASTIC", confidence |-> 5850]
    /\ Classify(RemoveAt(labels, 1)) = [type |-> "PLASTIC", confidence |-> 5525]
    /\ Classify(RemoveAt(labels, 3)) = Rejected

\* two accepted items share the highest confidence
TieForBest ==
    \E j, k \in 1..Len(accepted_items) :
        /\ j # k
        /\ accepted_items[j].confidence = accepted_items[k].confidence
        /\ \A m \in 1..Len(accepted_items) :
              accepted_items[m].confidence <= accepted_items[j].confidence

\* C29: the labels in another order give the same confidence and the same
\* decision between REJECTED and not, and the same material unless two
\* accepted labels tie for the highest confidence.  Stated for the exchange
\* of two neighbours, at every label sequence: these exchanges generate
\* every permutation, and a tie is a property of the set.
C29_OrderInsensitive ==
    Done => \A i \in 1..(Len(labels) - 1) :
        LET other == Classify(Swap(labels, i)) IN
        /\ other.confidence = result.confidence
        /\ (other.type = "REJECTED") <=> (result.type = "REJECTED")
        /\ ~TieForBest => other.type = result.type

\* a bottle and a can tie: the first one decides the material, the
\* confidence is the same in both orders
C29_Witness ==
    /\ Done
    /\ labels = << [description |-> "Plastic bottle", score |-> 9000],
                    [description |-> "Aluminum can", score |-> 9000] >>
    /\ TieForBest
    /\ result = [type |-> "PLASTIC", confidence |-> 9000]
    /\ Classify(Swap(labels, 1)) = [type |-> "NON_PLASTIC", confidence |-> 9000]


(***************************************************************************)
(* Properties of the token map and of /session-status.                     *)
(***************************************************************************)
\* C26, as the specification states it, for the call that follows a store:
\* right after /prepare-insert has stored the token of user u, no removal
\* has happened since, so get_active_customer_token returns that token.
C26_AsClaimed ==
    [][ \A u \in Users :
            prepare_insert_session(Jwt(u)) =>
                get_active_customer_token(customer_tokens') = Jwt(u) ]_all_vars

\* C27, as the specification states it: while Redis is available,
\* /session-status answers has_session true exactly when some user has a
\* session that is neither ended nor expired.
C27_AsClaimed ==
    (Answered("session-status") /\ redis_up) =>
        (response.has_session <=>
            \E u \in Users : is_session_active(redis_up, sessions, u))

\* C30, as the specification states it: a classification through
\* capture-and-classify modifies only the stored token map and the detection
\* history: the session records and the ledger with its user and machine
\* counters are as before.
C30_AsClaimed ==
    [][ \A u \in Users, picture \in Shots \cup {Nil}, vision_up \in BOOLEAN :
          capture_and_classify(Jwt(u), picture, 1, vision_up) =>
              UNCHANGED <<sessions, transactions, users, machines>> ]_all_vars

\* C30: capture-and-classify, answered 200, 403 or 500, leaves every session
\* record as it is, token and time to live, and with it who is active; a
\* session record is at every moment what the last /prepare-insert and
\* /end-session and the time since made it, whatever was classified in
\* between: live with SESSION_TTL minus the time since its /prepare-insert,
\* until it is ended or that time reaches SESSION_TTL.  Besides the token
\* map and the history the request writes the ledger, and only when it
\* answers a PLASTIC or NON_PLASTIC verdict.
C30_SessionUntouched ==
    /\ [](redis_up => \A u \in Users :
            /\ Live(sessions[u]) <=> (granted[u] >= 0 /\ granted[u] < SESSION_TTL)
            /\ Live(sessions[u]) => sessions[u].ttl = SESSION_TTL - granted[u])
    /\ [][ \A u \in Users, picture \in Shots \cup {Nil}, vision_up \in BOOLEAN :
              capture_and_classify(Jwt(u), picture, 1, vision_up) =>
                  /\ sessions' = sessions
                  /\ \A w \in Users :
                        is_session_active(redis_up', sessions', w)
                            <=> is_session_active(redis_up, sessions, w)
                  /\ <<transactions, users, machines>>'
                         # <<transactions, users, machines>> =>
                        /\ response'.status_code = 200
                        /\ response'.result.status = "success"
                        /\ Len(transactions') = Len(transactions) + 1 ]_all_vars

\* the second classification under a session that was prepared before the
\* clock last moved: both are in the history, the session is live and its
\* time to live was not renewed
C30_Witness ==
    /\ Answered("capture-and-classify")
    /\ response.status_code = 200
    /\ captures = 2
    /\ response.result.status = "success"
    /\ Len(history[response.user_id]) = 2
    /\ Live(sessions[response.user_id])
    /\ sessions[response.user_id].ttl < SESSION_TTL
====
